---- MODULE Spec2Model ----
(***************************************************************************)
(* Run-execution engine of erasure-executor: the idempotent launch gate    *)
(* (api.start_run), approval resolution (api.resolve_approval) and the     *)
(* lease-based runner (engine/runner.py) over one relational store.        *)
(*                                                                         *)
(* Every SQL statement / commit is one atomic step.  The runner works on   *)
(* ORM objects of a session created with expire_on_commit=False: the       *)
(* in-memory Run keeps the attribute values it was loaded with, and a      *)
(* commit emits an UPDATE (by primary key) of exactly the attributes whose *)
(* new value differs from the in-memory one.                               *)
(***************************************************************************)
EXTENDS Integers, Sequences, FiniteSets, TLC

\* ---------------------------------------------------------------- bounds
MaxTime == 2
MaxCrashes == 1
MaxPlanEdits == 1
MaxBrokerList == 2      \* length of a catalog handed to initialize_for_profile
MaxFailureCount == 4    \* consecutive failures recorded for one broker
MaxArtifacts == 2       \* artifacts persisted in a behaviour
MaxPolls == 2           \* ticks of the scheduler
MaxScanRuns == 2        \* runs created by the scheduler's hook
MaxAttempts == 3        \* task.max_attempts and retry.attempts

\* ------------------------------------------------------ program constants
\* lease length max(30, run_claim_ttl_seconds), in clock units of the model
ClaimTtl == 1
DEFAULT_MAX_CONSECUTIVE_FAILURES == 3
DEFAULT_RECHECK_DAYS == 30
\* clock units in a day, for the whole days of timedelta.days
TicksPerDay == 2

None == "none"
Null == -1

Runners == {"r1", "r2"}
Launchers == {"l1", "l2", "l3"}
\* a launch creates at most one Run; its fresh uuid4 is named after the launch
RunIds == Launchers
IdempotencyKeys == {None, "", "k1", "k2", "k3"}

SIDE_EFFECT_TYPES == {"form.submit", "email.send", "email.click_verify", "broker.update_status"}
HTTP_SAFE_METHODS == {"GET", "HEAD", "OPTIONS"}
ClaimableStatuses == {"queued", "running", "blocked_for_approval"}
TerminalStatuses == {"succeeded", "failed", "canceled"}

\* The plan file on disk (plans_root/<plan_id>.yaml) in its successive edits:
\* tasks A (scrape.rendered) and B (a side-effect task depending on A).
\* artifact_kind and save_as are output.artifact_kind and output.save_as, None
\* for a task that does not set them; the side-effect task B is declared
\* idempotent: false
TaskA == [id |-> "A", type |-> "scrape.rendered", method |-> "GET",
          depends_on |-> {}, requires_approval |-> FALSE, artifact_kind |-> "html",
          save_as |-> "listing", idempotent |-> TRUE, delay |-> 0]
TaskB(kind) == IF kind = "form"
               THEN [id |-> "B", type |-> "form.submit", method |-> "GET",
                     depends_on |-> {"A"}, requires_approval |-> FALSE, artifact_kind |-> None,
                     save_as |-> None, idempotent |-> FALSE, delay |-> 0]
               ELSE [id |-> "B", type |-> "http.request", method |-> "POST",
                     depends_on |-> {"A"}, requires_approval |-> FALSE, artifact_kind |-> None,
                     save_as |-> None, idempotent |-> FALSE, delay |-> 0]
PlanKinds == {"form", "http"}
\* tasks/registry.py line 798: the longest delay wait.delay sleeps through
\* inline, 300 s, taken as one unit of the clock
InlineSleepMax == 1
\* a wait.delay task of the given total delay
WaitTask(total) == [TaskA EXCEPT !.type = "wait.delay", !.artifact_kind = None,
                                 !.save_as = None, !.delay = total]
DelayKinds == {"inline", "deferred"}
\* text_rev stands for what the file holds besides the plan's fields:
\* comments, layout, key order
\* kind "misordered": a plan whose first task depends on its second (plans are
\* loaded without a check of depends_on, schemas/plan.py lines 33-58)
PlanFile(kind, version) ==
    [version |-> version, text_rev |-> 1,
     tasks |-> IF kind = "misordered"
               THEN <<[TaskA EXCEPT !.depends_on = {"B"}], TaskB("form")>>
               ELSE IF kind = "inline"
               THEN <<WaitTask(InlineSleepMax), TaskB("form")>>
               ELSE IF kind = "deferred"
               THEN <<WaitTask(InlineSleepMax + 1), TaskB("form")>>
               ELSE <<TaskA, TaskB(kind)>>]
TaskIds == {"A", "B"}
\* no file at any of the paths load_plan tries for the plan id
NoFile == [version |-> 0, text_rev |-> 0, tasks |-> <<>>]

VARIABLES
    now,            \* wall clock (datetime.utcnow)
    runs,           \* table runs: run_id -> row
    run_tasks,      \* table run_tasks: set of rows
    run_approvals,  \* table run_approvals: set of rows
    planFile,       \* the plan file currently on disk
    config,         \* ExecutorConfig: config and run_timeout_ms
    lpc, lreq, lres, lplan,     \* start_run requests: position, body, response, loaded plan
    pc, cand, mem, plan, idx, row, claimNow,  \* runner threads
    state,          \* runner threads: the state map handed to the task handlers
    wait,           \* the running handler's resume time
    invoked,        \* history: handler invocations per (run, task)
    execLog,        \* history: tasks whose handler the runner's current execution invoked
    resume,         \* history: the approved, not yet succeeded task the execution started at
    crashes, edits, \* budget counters
    schedules,      \* table scan_schedule: set of rows
    failure_counts, \* DeadLetterTracker._failure_counts: broker_id -> count
    artifacts,      \* table run_artifacts: set of rows
    artifact_seq,   \* number of artifacts persisted so far
    files,          \* the artifact files on disk, by the artifact they belong to
    call,           \* the last call of a background component: arguments and result
    spc,            \* scheduler thread: position in _poll_loop
    jobs, job_i,    \* the ScanJobs of the current tick and the loop's position in them
    seen_brokers,   \* _poll_loop's seen_brokers
    to_mark,        \* the (schedule_id, run_id) mark_started is about to record
    scan_runs,      \* the runs the run-creation hook has created, in order
    polls,          \* number of ticks of the scheduler so far
    rt              \* execute_task in progress: policy, attempt, handler outcomes so far

dbVars == <<runs, run_tasks, run_approvals>>
launchVars == <<lpc, lreq, lres, lplan>>
runnerVars == <<pc, cand, mem, plan, idx, row, claimNow, state, wait>>
histVars == <<invoked, execLog, resume>>
pollVars == <<spc, jobs, job_i, seen_brokers, to_mark, scan_runs, polls>>
auxVars == <<schedules, failure_counts, artifacts, artifact_seq, files, call, pollVars, rt>>
vars == <<now, runs, run_tasks, run_approvals, planFile, config, lpc, lreq, lres, lplan,
          pc, cand, mem, plan, idx, row, claimNow, state, wait, invoked, execLog, resume, crashes, edits,
          auxVars>>

\* ------------------------------------------------------------ pure helpers
\* engine/plans.py hash_plan: sha256 of the key-sorted JSON dump of the plan,
\* represented by the canonical dump itself (sha256 taken as collision-free).
hash_plan(p) == <<"sha256", p.version, [i \in DOMAIN p.tasks |-> p.tasks[i]]>>

\* engine/plans.py load_plan: yaml.safe_load and validation keep the plan's
\* fields and nothing else of the file
load_plan(file) == [version |-> file.version, tasks |-> file.tasks]

\* mutant: the non-safe http.request is not counted as a side effect
_task_has_side_effect_TypesOnly(task) == task.type \in SIDE_EFFECT_TYPES

_task_has_side_effect(task) ==
    IF task.type \in SIDE_EFFECT_TYPES THEN TRUE
    ELSE IF task.type = "http.request" THEN task.method \notin HTTP_SAFE_METHODS
    ELSE FALSE

\* `if req.idempotency_key:` -- Python truthiness of str | None
Truthy(key) == key # None /\ key # ""

\* unit of work: UPDATE runs SET <changed attributes> WHERE run_id = pk.
\* An attribute is written iff its new value differs from the value the
\* session's object holds (expire_on_commit=False, no refresh).
FlushRow(dbrow, obj, changes) ==
    [a \in DOMAIN dbrow |->
        IF a \in DOMAIN changes /\ changes[a] # obj[a] THEN changes[a] ELSE dbrow[a]]

ApplyChanges(obj, changes) ==
    [a \in DOMAIN obj |-> IF a \in DOMAIN changes THEN changes[a] ELSE obj[a]]

\* session.add(run); session.commit() for the runner's in-memory run
CommitRun(r, changes) ==
    /\ runs' = [runs EXCEPT ![mem[r].run_id] =
                    FlushRow(runs[mem[r].run_id], mem[r], changes)]
    /\ mem' = [mem EXCEPT ![r] = ApplyChanges(mem[r], changes)]

NoObj == [run_id |-> None]
NoRow == [task_run_id |-> None]
NoPlan == [version |-> 0, tasks |-> <<>>]
NoCall == [op |-> None]
NoRetry == [pc |-> "idle"]
NoPending == [schedule_id |-> <<>>, run_id |-> <<>>]

\* ------------------------------------------------------------------- Init
InitCommon ==
    /\ runs = [x \in {} |-> 0]
    /\ run_tasks = {}
    /\ run_approvals = {}
    /\ lres = [l \in Launchers |-> None]
    /\ lplan = [l \in Launchers |-> NoPlan]
    /\ cand = [r \in Runners |-> <<>>]
    /\ mem = [r \in Runners |-> NoObj]
    /\ plan = [r \in Runners |-> NoPlan]
    /\ idx = [r \in Runners |-> 0]
    /\ row = [r \in Runners |-> NoRow]
    /\ claimNow = [r \in Runners |-> 0]
    /\ state = [r \in Runners |-> {}]
    /\ wait = [r \in Runners |-> Null]
    /\ invoked = [x \in RunIds \X TaskIds |-> 0]
    /\ execLog = [r \in Runners |-> <<>>]
    /\ resume = [r \in Runners |-> None]
    /\ crashes = 0
    /\ edits = 0
    /\ schedules = {}
    /\ failure_counts = [b \in {} |-> 0]
    /\ artifacts = {}
    /\ artifact_seq = 0
    /\ files = {}
    /\ call = NoCall
    /\ spc = "idle"
    /\ jobs = <<>>
    /\ job_i = 0
    /\ seen_brokers = {}
    /\ to_mark = NoPending
    /\ scan_runs = <<>>
    /\ polls = 0
    /\ rt = NoRetry

\* ------------------------------------------------------------ environment
\* time passes; the clock is read relative to the first stored run or artifact
Tick ==
    /\ now < MaxTime
    /\ DOMAIN runs # {} \/ artifacts # {} \/ schedules # {}
    /\ now' = now + 1
    /\ UNCHANGED <<dbVars, planFile, config, launchVars, runnerVars, histVars, crashes, edits, auxVars>>

\* an operator edits the plan file on disk
EditPlan ==
    /\ edits < MaxPlanEdits
    /\ edits' = edits + 1
    /\ \/ planFile' = [planFile EXCEPT !.version = @ + 1]
       \/ planFile' = [planFile EXCEPT !.text_rev = @ + 1]
    /\ UNCHANGED <<now, dbVars, config, launchVars, runnerVars, histVars, crashes, auxVars>>

\* an operator removes the plan file from plans_root
RemovePlan ==
    /\ edits < MaxPlanEdits
    /\ planFile # NoFile
    /\ edits' = edits + 1
    /\ planFile' = NoFile
    /\ UNCHANGED <<now, dbVars, config, launchVars, runnerVars, histVars, crashes, auxVars>>

\* external cancellation: the run's status is moved to canceled from outside
\* the executor (no operation of the executor does it)
Cancel(id) ==
    /\ id \in DOMAIN runs
    /\ runs[id].status \in ClaimableStatuses
    /\ runs' = [runs EXCEPT ![id].status = "canceled"]
    /\ UNCHANGED <<now, run_tasks, run_approvals, planFile, config, launchVars,
                   runnerVars, histVars, crashes, edits, auxVars>>

\* --------------------------------------------------------- api.start_run
\* lines 165-178: config gate, load_plan, then the idempotency lookup
StartRunLookup(l) ==
    /\ lpc[l] = "request"
    /\ IF config.policy.require_idempotency_key /\ ~Truthy(lreq[l])
       THEN /\ lpc' = [lpc EXCEPT ![l] = "done"]
            /\ lres' = [lres EXCEPT ![l] = "400"]
       ELSE IF planFile = NoFile
       THEN \* load_plan raises FileNotFoundError, which no handler catches
            /\ lpc' = [lpc EXCEPT ![l] = "done"]
            /\ lres' = [lres EXCEPT ![l] = "500"]
       ELSE IF Truthy(lreq[l]) /\ \E id \in DOMAIN runs : runs[id].idempotency_key = lreq[l]
       THEN /\ lpc' = [lpc EXCEPT ![l] = "done"]
            /\ lres' = [lres EXCEPT ![l] =
                          CHOOSE id \in DOMAIN runs : runs[id].idempotency_key = lreq[l]]
       ELSE /\ lpc' = [lpc EXCEPT ![l] = "insert"]
            /\ lres' = lres
    /\ lplan' = [lplan EXCEPT ![l] = IF planFile = NoFile THEN NoPlan ELSE load_plan(planFile)]
    /\ UNCHANGED <<now, dbVars, planFile, config, lreq, runnerVars, histVars, crashes, edits, auxVars>>

NewRun(l) ==
    [status |-> "queued", plan_hash |-> hash_plan(lplan[l]), idempotency_key |-> lreq[l],
     created_at |-> now, started_at |-> Null, claimed_by |-> None,
     claim_expires_at |-> Null, error_code |-> None, error_message |-> None]

\* lines 180-203: INSERT; the unique index on idempotency_key (NULLs are
\* distinct) raises IntegrityError, after which the winner is reread
StartRunInsert(l) ==
    /\ lpc[l] = "insert"
    /\ lpc' = [lpc EXCEPT ![l] = "done"]
    /\ IF lreq[l] # None /\ \E id \in DOMAIN runs : runs[id].idempotency_key = lreq[l]
       THEN /\ lres' = [lres EXCEPT ![l] =
                          IF Truthy(lreq[l])
                          THEN CHOOSE id \in DOMAIN runs : runs[id].idempotency_key = lreq[l]
                          ELSE "409"]
            /\ runs' = runs
       ELSE /\ runs' = [id \in DOMAIN runs \cup {l} |-> IF id = l THEN NewRun(l) ELSE runs[id]]
            /\ lres' = [lres EXCEPT ![l] = l]
    /\ UNCHANGED <<now, run_tasks, run_approvals, planFile, config, lreq, lplan,
                   runnerVars, histVars, crashes, edits, auxVars>>

\* ------------------------------------------------- api.resolve_approval
\* lines 214-251, one short transaction: a pending approval takes the
\* decision; approve re-queues a blocked run, deny fails the run
resolve_approval(a, decision) ==
    /\ a \in run_approvals
    /\ a.status = "pending"
    /\ LET st == IF decision = "approve" THEN "approved" ELSE "denied"
           run == runs[a.run_id]
       IN /\ run_approvals' = (run_approvals \ {a}) \cup {[a EXCEPT !.status = st]}
          /\ runs' = [runs EXCEPT ![a.run_id] =
                IF st = "approved"
                THEN IF run.status = "blocked_for_approval"
                     THEN [run EXCEPT !.status = "queued"] ELSE run
                ELSE [run EXCEPT !.status = "failed", !.error_code = "APPROVAL_DENIED",
                                 !.error_message = "Approval denied"]]
    /\ UNCHANGED <<now, run_tasks, planFile, config, launchVars, runnerVars, histVars,
                   crashes, edits, auxVars>>

\* ----------------------------------------------------------- the runner
\* the runner thread is back in _loop, its session closed
Idle(r) ==
    /\ pc' = [pc EXCEPT ![r] = "idle"]
    /\ cand' = [cand EXCEPT ![r] = <<>>]
    /\ plan' = [plan EXCEPT ![r] = NoPlan]
    /\ idx' = [idx EXCEPT ![r] = 0]
    /\ row' = [row EXCEPT ![r] = NoRow]
    /\ state' = [state EXCEPT ![r] = {}]
    /\ wait' = [wait EXCEPT ![r] = Null]
    /\ execLog' = [execLog EXCEPT ![r] = <<>>]
    /\ resume' = [resume EXCEPT ![r] = None]

ResetObj(r) == mem' = [mem EXCEPT ![r] = NoObj]

\* ORDER BY created_at ASC: every order of the rows compatible with it
CandidateOrders(ids) ==
    {s \in [1..Cardinality(ids) -> ids] :
        /\ \A i, j \in DOMAIN s : i # j => s[i] # s[j]
        /\ \A i, j \in DOMAIN s : i < j => runs[s[i]].created_at <= runs[s[j]].created_at}

LoadRun(id) == [a \in DOMAIN runs[id] \cup {"run_id"} |->
                    IF a = "run_id" THEN id ELSE runs[id][a]]

\* _claim_next_run lines 57-66: now, and the candidates query, which loads
\* the candidate Run objects into the session
ClaimCandidates(r) ==
    /\ pc[r] = "idle"
    /\ LET ids == {id \in DOMAIN runs : runs[id].status \in ClaimableStatuses}
       IN /\ ids # {}
          /\ \E s \in CandidateOrders(ids) :
                cand' = [cand EXCEPT ![r] = [i \in DOMAIN s |-> LoadRun(s[i])]]
    /\ claimNow' = [claimNow EXCEPT ![r] = now]
    /\ pc' = [pc EXCEPT ![r] = "claim"]
    /\ UNCHANGED <<now, dbVars, planFile, config, launchVars, mem, plan, state, wait, idx, row,
                   histVars, crashes, edits, auxVars>>

\* mutant: the lease is compared with the new lease_until instead of now
ClaimCondition_LeaseUntil(r, dbrow, t) ==
    /\ dbrow.status \in ClaimableStatuses
    /\ \/ dbrow.claimed_by = None
       \/ dbrow.claimed_by = r
       \/ dbrow.claim_expires_at = Null
       \/ dbrow.claim_expires_at < t + ClaimTtl

\* the WHERE clause of the conditional update, lines 70-79
ClaimCondition(r, dbrow, t) ==
    /\ dbrow.status \in ClaimableStatuses
    /\ \/ dbrow.claimed_by = None
       \/ dbrow.claimed_by = r
       \/ dbrow.claim_expires_at = Null
       \/ dbrow.claim_expires_at < t

\* _claim_next_run lines 67-88: the conditional update for the next candidate
ClaimUpdate(r) ==
    /\ pc[r] = "claim"
    /\ LET c == Head(cand[r])
           lease_until == claimNow[r] + ClaimTtl
       IN IF ClaimCondition(r, runs[c.run_id], claimNow[r])
          THEN /\ runs' = [runs EXCEPT ![c.run_id].claimed_by = r,
                                       ![c.run_id].claim_expires_at = lease_until]
               /\ mem' = [mem EXCEPT ![r] = c]
               /\ cand' = [cand EXCEPT ![r] = <<>>]
               /\ pc' = [pc EXCEPT ![r] = "claimed"]
          ELSE /\ runs' = runs
               /\ mem' = mem
               /\ cand' = [cand EXCEPT ![r] = Tail(cand[r])]
               /\ pc' = [pc EXCEPT ![r] = IF Len(cand[r]) = 1 THEN "idle" ELSE "claim"]
    /\ claimNow' = [claimNow EXCEPT ![r] = IF pc'[r] = "claim" THEN @ ELSE 0]
    /\ UNCHANGED <<now, run_tasks, run_approvals, planFile, config, launchVars,
                   plan, state, wait, idx, row, histVars, crashes, edits, auxVars>>

\* mutant: the release leaves the lease time in place
ClearedClaim_OwnerOnly == [claimed_by |-> None]

\* lines 101-102, 246-247, 331-332: the two attributes of a released claim
ClearedClaim == [claimed_by |-> None, claim_expires_at |-> Null]

\* _process_once lines 164-177
ProcessClaimed(r) ==
    /\ pc[r] = "claimed"
    /\ IF mem[r].status = "blocked_for_approval"
       THEN LET pending == {a \in run_approvals :
                                a.run_id = mem[r].run_id /\ a.status = "pending"}
            IN IF pending # {}
               THEN \* _clear_claim, lines 100-104
                    /\ runs' = [runs EXCEPT ![mem[r].run_id] =
                                   FlushRow(runs[mem[r].run_id], mem[r], ClearedClaim)]
                    /\ ResetObj(r)
                    /\ Idle(r)
               ELSE /\ CommitRun(r, [status |-> "queued"])
                    /\ pc' = [pc EXCEPT ![r] = "renew"]
                    /\ UNCHANGED <<cand, plan, state, wait, idx, row, execLog, resume>>
       ELSE /\ pc' = [pc EXCEPT ![r] = "renew"]
            /\ UNCHANGED <<runs, mem, cand, plan, state, wait, idx, row, execLog, resume>>
    /\ UNCHANGED <<now, run_tasks, run_approvals, planFile, config, launchVars,
                   claimNow, invoked, crashes, edits, auxVars>>

\* the WHERE clause of _renew_claim, line 94
RenewCondition(r, dbrow) == dbrow.claimed_by = r

\* _renew_claim lines 90-98: the effect on the runs table
_renew_claim(r) ==
    runs' = [runs EXCEPT ![mem[r].run_id].claim_expires_at =
                IF RenewCondition(r, runs[mem[r].run_id]) THEN now + ClaimTtl ELSE @]

_run_timed_out(obj, started) == started # Null /\ now - started > config.run_timeout_ms

FailedWith(code, message) ==
    [status |-> "failed", error_code |-> code, error_message |-> message,
     claimed_by |-> None, claim_expires_at |-> Null]

\* str(exc) of the exceptions _execute_run's try block can see, by where they are raised
ExcMessage ==
    [except_claim_lost    |-> "run claim lost during execution",
     except_multiple_rows |-> "Multiple rows were found when one or none was required",
     except_dependency    |-> "Dependency not satisfied",
     except_handler       |-> "task handler error"]

\* end of an execution whose last statement is a commit of the run
CommitAndReturn(r, changes) ==
    /\ runs' = [runs EXCEPT ![mem[r].run_id] =
                    FlushRow(runs[mem[r].run_id], mem[r], changes)]
    /\ ResetObj(r)
    /\ Idle(r)

\* _execute_run lines 180-182: the first lease renewal
RenewFirst(r) ==
    /\ pc[r] = "renew"
    /\ _renew_claim(r)
    /\ IF RenewCondition(r, runs[mem[r].run_id])
       THEN /\ pc' = [pc EXCEPT ![r] = "check_plan"]
            /\ UNCHANGED <<mem, cand, plan, state, wait, idx, row, execLog, resume>>
       ELSE /\ ResetObj(r)
            /\ Idle(r)
    /\ UNCHANGED <<now, run_tasks, run_approvals, planFile, config, launchVars,
                   claimNow, invoked, crashes, edits, auxVars>>

\* the task the run was suspended on and whose approval has been granted
ResumePoint(run_id, p) ==
    LET ts == {i \in DOMAIN p.tasks :
                 /\ \E a \in run_approvals :
                        a.run_id = run_id /\ a.task_id = p.tasks[i].id /\ a.status = "approved"
                 /\ ~\E t \in run_tasks :
                        t.run_id = run_id /\ t.task_id = p.tasks[i].id /\ t.status = "succeeded"}
    IN IF ts = {} THEN None ELSE p.tasks[CHOOSE i \in ts : \A j \in ts : i <= j].id

\* what a task's handler returns, and what the Task Instance's output_json
\* holds once the task has succeeded
Output(task_id) == <<"output", task_id>>

\* lines 208-213: the state map starts with the stored output of every
\* succeeded Task Instance of the run, under the task's id
StoredOutputs(run_id) ==
    {<<t.task_id, Output(t.task_id)>> : t \in {x \in run_tasks : x.run_id = run_id /\ x.status = "succeeded"}}

\* state[key] = value
Put(map, key, value) == {e \in map : e[1] # key} \cup {<<key, value>>}

\* lines 314-316: the output under the task's id and under its save_as alias
SaveOutput(map, task) ==
    IF task.save_as # None
    THEN Put(Put(map, task.id, Output(task.id)), task.save_as, Output(task.id))
    ELSE Put(map, task.id, Output(task.id))

\* the comparison of line 185
PlanHashMatches(obj, p) == obj.plan_hash = hash_plan(p)

\* _execute_run lines 184-213: load the plan, compare the hashes, stamp
\* started_at, check the wall-clock timeout, move the run to running.
\* load_plan's FileNotFoundError (plans.py line 33) is raised outside the
\* try block: it leaves _process_once, whose session is closed without a
\* write, and is logged by _loop (lines 49-52).
CheckPlan(r) ==
    /\ pc[r] = "check_plan"
    /\ LET p == load_plan(planFile)
           started == IF mem[r].started_at = Null THEN now ELSE mem[r].started_at
       IN IF planFile = NoFile
          THEN /\ runs' = runs
               /\ ResetObj(r)
               /\ Idle(r)
          ELSE IF ~PlanHashMatches(mem[r], p)
          THEN CommitAndReturn(r, FailedWith("PLAN_HASH_MISMATCH", "Plan definition changed after run creation"))
          ELSE IF _run_timed_out(mem[r], started)
          THEN CommitAndReturn(r, [started_at |-> started] @@ FailedWith("RUN_TIMEOUT", "Run exceeded wall-clock timeout"))
          ELSE /\ CommitRun(r, [started_at |-> started, status |-> "running"])
               /\ plan' = [plan EXCEPT ![r] = p]
               /\ idx' = [idx EXCEPT ![r] = 1]
               /\ pc' = [pc EXCEPT ![r] = "loop_renew"]
               /\ resume' = [resume EXCEPT ![r] = ResumePoint(mem[r].run_id, p)]
               /\ state' = [state EXCEPT ![r] = StoredOutputs(mem[r].run_id)]
               /\ UNCHANGED <<cand, row, execLog, wait>>
    /\ UNCHANGED <<now, run_tasks, run_approvals, planFile, config, launchVars,
                   claimNow, invoked, crashes, edits, auxVars>>

\* _execute_run lines 217-218: lease renewal before each task
LoopRenew(r) ==
    /\ pc[r] = "loop_renew"
    /\ _renew_claim(r)
    /\ pc' = [pc EXCEPT ![r] = IF RenewCondition(r, runs[mem[r].run_id])
                               THEN "loop_row" ELSE "except_claim_lost"]
    /\ UNCHANGED <<now, run_tasks, run_approvals, planFile, config, launchVars,
                   cand, mem, plan, state, wait, idx, row, claimNow, histVars, crashes, edits, auxVars>>

\* mutant: a succeeded Task Instance is not recognised
RowSucceeded_Never(rows) == FALSE

\* line 224: `row and row.status == "succeeded"`
RowSucceeded(rows) == \E t \in rows : t.status = "succeeded"

\* _task_row: the rows one_or_none() looks at
TaskRows(run_id, task_id) == {t \in run_tasks : t.run_id = run_id /\ t.task_id = task_id}

DependencySatisfied(run_id, dep) ==
    \E t \in TaskRows(run_id, dep) : t.status = "succeeded"

\* line 234-236
RequiresApproval(task) ==
    task.requires_approval \/ (config.policy.side_effects_require_approval /\ _task_has_side_effect(task))

\* mutant: the loop ends one task early
Advance_OneShort(r) ==
    /\ idx' = [idx EXCEPT ![r] = @ + 1]
    /\ pc' = [pc EXCEPT ![r] = IF idx[r] >= Len(plan[r].tasks) - 1 THEN "finish" ELSE "loop_renew"]
    /\ row' = [row EXCEPT ![r] = NoRow]

\* after a task: the next loop iteration, or the code after the loop
Advance(r) ==
    /\ idx' = [idx EXCEPT ![r] = @ + 1]
    /\ pc' = [pc EXCEPT ![r] = IF idx[r] = Len(plan[r].tasks) THEN "finish" ELSE "loop_renew"]
    /\ row' = [row EXCEPT ![r] = NoRow]

\* _execute_run lines 219-236: timeout check, the task's row (skip when
\* succeeded), the dependency check, the approval requirement
LoopRow(r) ==
    /\ pc[r] = "loop_row"
    /\ LET task == plan[r].tasks[idx[r]]
           rid == mem[r].run_id
           rows == TaskRows(rid, task.id)
       IN IF _run_timed_out(mem[r], mem[r].started_at)
          THEN /\ CommitAndReturn(r, FailedWith("RUN_TIMEOUT", "Run exceeded wall-clock timeout"))
          ELSE /\ UNCHANGED <<runs, mem, cand, plan, execLog, resume, wait>>
               \* lines 224-227: a succeeded task is skipped, its stored output put
               \* into the state map under the task's id
               /\ state' = [state EXCEPT ![r] =
                                IF Cardinality(rows) = 1 /\ RowSucceeded(rows)
                                THEN Put(@, task.id, Output(task.id)) ELSE @]
               /\ IF Cardinality(rows) > 1
                  THEN \* one_or_none() raises MultipleResultsFound
                       /\ pc' = [pc EXCEPT ![r] = "except_multiple_rows"]
                       /\ UNCHANGED <<idx, row>>
                  ELSE IF RowSucceeded(rows)
                  THEN Advance(r)
                  ELSE IF \E dep \in task.depends_on : Cardinality(TaskRows(rid, dep)) > 1
                  THEN \* one_or_none() raises for the dependency's rows
                       /\ pc' = [pc EXCEPT ![r] = "except_multiple_rows"]
                       /\ UNCHANGED <<idx, row>>
                  ELSE IF \E dep \in task.depends_on : ~DependencySatisfied(rid, dep)
                  THEN /\ pc' = [pc EXCEPT ![r] = "except_dependency"]
                       /\ UNCHANGED <<idx, row>>
                  ELSE /\ row' = [row EXCEPT ![r] =
                                    IF rows = {} THEN NoRow ELSE CHOOSE t \in rows : TRUE]
                       /\ pc' = [pc EXCEPT ![r] = IF RequiresApproval(task)
                                                  THEN "approval" ELSE "invoke"]
                       /\ UNCHANGED idx
    /\ UNCHANGED <<now, run_tasks, run_approvals, planFile, config, launchVars,
                   claimNow, invoked, crashes, edits, auxVars>>

ApprovalRows(run_id, task_id) ==
    {a \in run_approvals : a.run_id = run_id /\ a.task_id = task_id}

\* where the runner goes on the approval's status, lines 244-261
ApprovalBranch(status) ==
    IF status = "pending" THEN "block"
    ELSE IF status = "denied" THEN "denied"
    ELSE "invoke"

\* _ensure_approval lines 127-133: the lookup
EnsureApprovalLookup(r) ==
    /\ pc[r] = "approval"
    /\ LET task == plan[r].tasks[idx[r]]
           rows == ApprovalRows(mem[r].run_id, task.id)
       IN IF Cardinality(rows) > 1
          THEN /\ pc' = [pc EXCEPT ![r] = "except_multiple_rows"]
          ELSE IF rows = {}
          THEN /\ pc' = [pc EXCEPT ![r] = "approval_insert"]
          ELSE LET a == CHOOSE x \in rows : TRUE
               IN pc' = [pc EXCEPT ![r] = ApprovalBranch(a.status)]
    /\ UNCHANGED <<now, dbVars, planFile, config, launchVars, cand, mem, plan, state, wait, idx, row,
                   claimNow, histVars, crashes, edits, auxVars>>

\* _ensure_approval lines 135-145: insert the pending approval
EnsureApprovalInsert(r) ==
    /\ pc[r] = "approval_insert"
    /\ run_approvals' = run_approvals \cup
          {[run_id |-> mem[r].run_id, task_id |-> plan[r].tasks[idx[r]].id,
            approval_id |-> r, status |-> "pending"]}
    /\ pc' = [pc EXCEPT ![r] = ApprovalBranch("pending")]
    /\ UNCHANGED <<now, runs, run_tasks, planFile, config, launchVars, cand, mem, plan, state, wait,
                   idx, row, claimNow, histVars, crashes, edits, auxVars>>

\* lines 244-250: suspend the run on the pending approval
Block(r) ==
    /\ pc[r] = "block"
    /\ CommitAndReturn(r, [status |-> "blocked_for_approval"] @@ ClearedClaim)
    /\ UNCHANGED <<now, run_tasks, run_approvals, planFile, config, launchVars,
                   claimNow, invoked, crashes, edits, auxVars>>

\* lines 251-261: the approval was denied
Denied(r) ==
    /\ pc[r] = "denied"
    /\ CommitAndReturn(r, FailedWith("APPROVAL_DENIED", "Approval denied for task"))
    /\ UNCHANGED <<now, run_tasks, run_approvals, planFile, config, launchVars,
                   claimNow, invoked, crashes, edits, auxVars>>

NewTaskRow(r) ==
    [run_id |-> mem[r].run_id, task_id |-> plan[r].tasks[idx[r]].id,
     task_run_id |-> r, status |-> "running", resume_at |-> Null]

\* tasks/registry.py lines 788-795: resume_at = now + total_seconds
ResumeAt(task) == now + task.delay
\* line 798: total_seconds <= 300, the handler sleeps inline
SleepsInline(task) == task.type = "wait.delay" /\ task.delay <= InlineSleepMax
\* lines 809-816: the output of a longer delay carries mode "deferred" and resume_at
Deferred(task) == task.type = "wait.delay" /\ task.delay > InlineSleepMax

\* lines 270-303: insert the Task Instance when absent, then call the
\* task's handler through execute_task
InvokeHandler(r) ==
    /\ pc[r] = "invoke"
    /\ LET task == plan[r].tasks[idx[r]]
       IN /\ IF row[r] = NoRow
             THEN /\ run_tasks' = run_tasks \cup {NewTaskRow(r)}
                  /\ row' = [row EXCEPT ![r] = NewTaskRow(r)]
             ELSE UNCHANGED <<run_tasks, row>>
          /\ invoked' = [invoked EXCEPT ![<<mem[r].run_id, task.id>>] = @ + 1]
          /\ execLog' = [execLog EXCEPT ![r] = Append(@, task.id)]
          /\ wait' = [wait EXCEPT ![r] = IF task.type = "wait.delay" THEN ResumeAt(task) ELSE Null]
    /\ pc' = [pc EXCEPT ![r] = "in_handler"]
    /\ UNCHANGED <<now, runs, run_approvals, planFile, config, launchVars, cand, mem,
                   plan, state, idx, claimNow, resume, crashes, edits, auxVars>>

\* execute_task returns the task's output; wait.delay returns from
\* time.sleep(total_seconds) once the delay has passed (tasks/registry.py
\* lines 798-807), and at once with the deferred marker otherwise
HandlerReturn(r) ==
    /\ pc[r] = "in_handler"
    /\ SleepsInline(plan[r].tasks[idx[r]]) => now >= wait[r]
    /\ pc' = [pc EXCEPT ![r] = "task_done"]
    /\ UNCHANGED <<now, dbVars, planFile, config, launchVars, cand, mem, plan, state, wait, idx, row,
                   claimNow, histVars, crashes, edits, auxVars>>

\* execute_task raises (retries exhausted or not allowed)
HandlerRaise(r) ==
    /\ pc[r] = "in_handler"
    /\ pc' = [pc EXCEPT ![r] = "except_handler"]
    /\ wait' = [wait EXCEPT ![r] = Null]
    /\ UNCHANGED <<now, dbVars, planFile, config, launchVars, cand, mem, plan, state, idx, row,
                   claimNow, histVars, crashes, edits, auxVars>>

\* lines 306-316: UPDATE run_tasks SET status = 'succeeded' WHERE task_run_id = pk,
\* then the output goes into the state map
TaskSucceeded(r) ==
    /\ pc[r] = "task_done"
    /\ run_tasks' = {IF t.run_id = row[r].run_id /\ t.task_id = row[r].task_id
                        /\ t.task_run_id = row[r].task_run_id
                     THEN [t EXCEPT !.status = "succeeded",
                                    !.resume_at = IF Deferred(plan[r].tasks[idx[r]])
                                                  THEN wait[r] ELSE Null]
                     ELSE t : t \in run_tasks}
    /\ pc' = [pc EXCEPT ![r] = "persist"]
    /\ wait' = [wait EXCEPT ![r] = Null]
    /\ state' = [state EXCEPT ![r] = SaveOutput(@, plan[r].tasks[idx[r]])]
    /\ UNCHANGED <<now, runs, run_approvals, planFile, config, launchVars, cand, mem,
                   plan, idx, row, claimNow, histVars, crashes, edits, auxVars>>

\* line 318: (task.output or {}).get("artifact_kind") or task.type
OutputKind(task) == IF task.artifact_kind # None THEN task.artifact_kind ELSE task.type

\* engine/artifacts.py lines 22-40: the file and the row of a task's output,
\* with a fresh artifact id
OutputArtifact(run_id, task) ==
    [artifact_id |-> artifact_seq + 1, run_id |-> run_id, kind |-> OutputKind(task),
     content_type |-> "application/json", task_id |-> task.id, created_at |-> now]

\* lines 318-327: the task's output is persisted as an artifact of the run
PersistOutput(r) ==
    /\ pc[r] = "persist"
    /\ artifacts' = artifacts \cup {OutputArtifact(mem[r].run_id, plan[r].tasks[idx[r]])}
    /\ artifact_seq' = artifact_seq + 1
    /\ files' = files \cup {artifact_seq + 1}
    /\ Advance(r)
    /\ UNCHANGED <<now, dbVars, planFile, config, launchVars, cand, mem, plan, state, wait, claimNow,
                   histVars, crashes, edits, schedules, failure_counts, call, pollVars, rt>>

\* lines 329-336: after the last task
Finish(r) ==
    /\ pc[r] = "finish"
    /\ CommitAndReturn(r, [status |-> "succeeded"] @@ ClearedClaim)
    /\ UNCHANGED <<now, run_tasks, run_approvals, planFile, config, launchVars,
                   claimNow, invoked, crashes, edits, auxVars>>

\* lines 338-349: any exception of the task loop fails the run
ExceptHandler(r) ==
    /\ pc[r] \in DOMAIN ExcMessage
    /\ CommitAndReturn(r, FailedWith("TASK_EXECUTION_FAILED", ExcMessage[pc[r]]))
    /\ UNCHANGED <<now, run_tasks, run_approvals, planFile, config, launchVars,
                   claimNow, invoked, crashes, edits, auxVars>>

\* the runner's process is killed; its session and thread are gone
Crash(r) ==
    /\ pc[r] # "dead"
    /\ crashes < MaxCrashes
    /\ crashes' = crashes + 1
    /\ pc' = [pc EXCEPT ![r] = "dead"]
    /\ cand' = [cand EXCEPT ![r] = <<>>]
    /\ plan' = [plan EXCEPT ![r] = NoPlan]
    /\ idx' = [idx EXCEPT ![r] = 0]
    /\ row' = [row EXCEPT ![r] = NoRow]
    /\ state' = [state EXCEPT ![r] = {}]
    /\ wait' = [wait EXCEPT ![r] = Null]
    /\ execLog' = [execLog EXCEPT ![r] = <<>>]
    /\ resume' = [resume EXCEPT ![r] = None]
    /\ claimNow' = [claimNow EXCEPT ![r] = 0]
    /\ ResetObj(r)
    /\ UNCHANGED <<now, dbVars, planFile, config, launchVars, invoked, edits, auxVars>>

RunnerStep(r) ==
    \/ ClaimCandidates(r) \/ ClaimUpdate(r) \/ ProcessClaimed(r) \/ RenewFirst(r)
    \/ CheckPlan(r) \/ LoopRenew(r) \/ LoopRow(r) \/ EnsureApprovalLookup(r)
    \/ EnsureApprovalInsert(r) \/ Block(r) \/ Denied(r) \/ InvokeHandler(r)
    \/ HandlerReturn(r) \/ HandlerRaise(r) \/ TaskSucceeded(r) \/ PersistOutput(r)
    \/ Finish(r) \/ ExceptHandler(r)

\* ------------------------------------------- engine/scheduler.py, schedules
Brokers == {"X", "Y"}
Profiles == {"p1", "p2"}

\* the broker dicts api.create_profile builds from the catalog: id,
\* plan_file (None or "" for a broker without a plan), recheck_days (Null
\* for a dict without the key)
CatalogEntries ==
    [id : {"X"}, plan_file : {"plan.yaml"}, recheck_days : {Null, 7}]
    \cup [id : {"Y"}, plan_file : {None, "", "plan.yaml"}, recheck_days : {7}]

\* the catalog of a deployment: broker X with a plan, broker Y without one
Catalog ==
    <<[id |-> "X", plan_file |-> "plan.yaml", recheck_days |-> 7],
      [id |-> "Y", plan_file |-> None, recheck_days |-> 7]>>

\* the catalogs of up to MaxBrokerList entries, a broker without a plan
\* carrying plan_file None
BrokerLists ==
    UNION {[1..n -> {e \in CatalogEntries : e.plan_file # ""}] : n \in 0..MaxBrokerList}

ScheduleRows(rows, broker_id, profile_id) ==
    {x \in rows : x.broker_id = broker_id /\ x.profile_id = profile_id}

\* scheduler.py lines 130-141: the new ScanSchedule (schedule_id is a fresh uuid)
NewSchedule(rows, broker_id, profile_id, recheck_days) ==
    [schedule_id |-> <<broker_id, profile_id, Cardinality(ScheduleRows(rows, broker_id, profile_id))>>,
     broker_id |-> broker_id, profile_id |-> profile_id, next_run_at |-> now,
     interval_days |-> recheck_days, enabled |-> TRUE,
     last_run_id |-> <<>>, last_run_at |-> Null]

\* mutant: the lookup does not see the rows added earlier in the same call
ExistingSchedules_Committed(rows, broker_id, profile_id) ==
    ScheduleRows(schedules, broker_id, profile_id)

\* scheduler.py lines 119-126: the session's query autoflushes, so it sees
\* the stored rows and the ones this call has added
ExistingSchedules(rows, broker_id, profile_id) ==
    ScheduleRows(rows, broker_id, profile_id)

\* scheduler.py lines 110-142: the loop over catalog_brokers from position i;
\* acc holds the table as the session sees it, the ids created and whether
\* one_or_none() has raised
RECURSIVE InitializeLoop(_, _, _, _)
InitializeLoop(acc, profile_id, catalog_brokers, i) ==
    IF i > Len(catalog_brokers) \/ acc.raised THEN acc
    ELSE LET broker == catalog_brokers[i]
             recheck_days == IF broker.recheck_days = Null
                             THEN DEFAULT_RECHECK_DAYS ELSE broker.recheck_days
             existing == ExistingSchedules(acc.rows, broker.id, profile_id)
         IN IF ~Truthy(broker.plan_file)
            THEN InitializeLoop(acc, profile_id, catalog_brokers, i + 1)
            ELSE IF Cardinality(existing) > 1
            THEN [acc EXCEPT !.raised = TRUE]
            ELSE IF existing # {}
            THEN InitializeLoop(acc, profile_id, catalog_brokers, i + 1)
            ELSE LET new == NewSchedule(acc.rows, broker.id, profile_id, recheck_days)
                 IN InitializeLoop([acc EXCEPT !.rows = @ \cup {new},
                                               !.ids = Append(@, new.schedule_id)],
                                   profile_id, catalog_brokers, i + 1)

\* scheduler.py lines 94-147; an exception leaves the session uncommitted
initialize_for_profile(profile_id, catalog_brokers) ==
    /\ LET res == InitializeLoop([rows |-> schedules, ids |-> <<>>, raised |-> FALSE],
                                 profile_id, catalog_brokers, 1)
       IN /\ schedules' = IF res.raised THEN schedules ELSE res.rows
          /\ call' = [op |-> "initialize_for_profile", profile_id |-> profile_id,
                      catalog_brokers |-> catalog_brokers,
                      ret |-> IF res.raised THEN <<"raised">> ELSE res.ids]
    /\ UNCHANGED <<now, dbVars, planFile, config, launchVars, runnerVars, histVars,
                   crashes, edits, rt, failure_counts, artifacts, artifact_seq, files, pollVars>>

\* ------------------------------------------- engine/scheduler.py, the tick
\* get_due_jobs line 58: plan_id = f"broker_{r.broker_id}"
PlanIdOf(broker_id) == <<"broker_", broker_id>>

ScanJob(r) ==
    [schedule_id |-> r.schedule_id, broker_id |-> r.broker_id, profile_id |-> r.profile_id,
     plan_id |-> PlanIdOf(r.broker_id), next_run_at |-> r.next_run_at,
     interval_days |-> r.interval_days]

\* get_due_jobs line 52: enabled and next_run_at <= now
DueRows(t) == {r \in schedules : r.enabled /\ r.next_run_at <= t}

\* line 53, ORDER BY next_run_at ASC: every order of the rows compatible with it
DueOrders(t) ==
    LET due == DueRows(t)
    IN {s \in [1..Cardinality(due) -> due] :
           /\ \A i, j \in DOMAIN s : i # j => s[i] # s[j]
           /\ \A i, j \in DOMAIN s : i < j => s[i].next_run_at <= s[j].next_run_at}

\* _poll_loop lines 153-155: a tick starts with the due jobs
get_due_jobs ==
    /\ spc = "idle"
    /\ polls < MaxPolls
    /\ polls' = polls + 1
    /\ \E s \in DueOrders(now) :
          /\ jobs' = [i \in DOMAIN s |-> ScanJob(s[i])]
          /\ job_i' = 1
          /\ spc' = IF s = <<>> THEN "idle" ELSE "job"
    /\ seen_brokers' = {}
    /\ UNCHANGED <<now, dbVars, planFile, config, launchVars, runnerVars, histVars,
                   crashes, edits, rt, schedules, failure_counts, artifacts, artifact_seq, files,
                   call, to_mark, scan_runs>>

\* what the run-creation hook does: it returns the id of a run it created,
\* it returns None (as does a scheduler without hook), or it raises
HookOutcomes == {"run", "none", "raise"}

\* the loop moves to the next job, or the tick is over
NextJob ==
    /\ job_i' = job_i + 1
    /\ spc' = IF job_i = Len(jobs) THEN "idle" ELSE "job"

\* _poll_loop lines 158-178 for one job: the broker deduplication and the
\* call of the hook
PollJob(outcome) ==
    /\ spc = "job"
    /\ LET job == jobs[job_i]
       IN IF job.broker_id \in seen_brokers
          THEN /\ NextJob
               /\ UNCHANGED <<seen_brokers, to_mark, scan_runs>>
          ELSE /\ seen_brokers' = seen_brokers \cup {job.broker_id}
               /\ IF outcome = "raise"
                  THEN /\ NextJob
                       /\ UNCHANGED <<to_mark, scan_runs>>
                  ELSE IF outcome = "run"
                  THEN /\ Len(scan_runs) < MaxScanRuns
                       /\ scan_runs' = Append(scan_runs,
                              [run_id |-> <<"run", Len(scan_runs) + 1>>, plan_id |-> job.plan_id,
                               broker_id |-> job.broker_id, schedule_id |-> job.schedule_id,
                               poll |-> polls, created_at |-> now, status |-> "queued"])
                       /\ to_mark' = [schedule_id |-> job.schedule_id,
                                      run_id |-> <<"run", Len(scan_runs) + 1>>]
                       /\ spc' = "mark"
                       /\ UNCHANGED job_i
                  ELSE /\ to_mark' = [schedule_id |-> job.schedule_id,
                                      run_id |-> <<"skipped", polls>>]
                       /\ spc' = "mark"
                       /\ UNCHANGED <<job_i, scan_runs>>
    /\ UNCHANGED <<now, dbVars, planFile, config, launchVars, runnerVars, histVars,
                   crashes, edits, rt, schedules, failure_counts, artifacts, artifact_seq, files,
                   call, jobs, polls>>

\* lines 70-92 called from lines 175-178: the schedule is advanced
mark_started ==
    /\ spc = "mark"
    /\ schedules' = {IF x.schedule_id = to_mark.schedule_id
                     THEN [x EXCEPT !.last_run_id = to_mark.run_id, !.last_run_at = now,
                                    !.next_run_at = now + x.interval_days * TicksPerDay]
                     ELSE x : x \in schedules}
    /\ to_mark' = NoPending
    /\ NextJob
    /\ UNCHANGED <<now, dbVars, planFile, config, launchVars, runnerVars, histVars,
                   crashes, edits, rt, failure_counts, artifacts, artifact_seq, files,
                   call, jobs, seen_brokers, scan_runs, polls>>

\* a run created by the hook comes to its end
FinishScanRun(i) ==
    /\ i \in DOMAIN scan_runs
    /\ scan_runs[i].status = "queued"
    /\ scan_runs' = [scan_runs EXCEPT ![i].status = "succeeded"]
    /\ UNCHANGED <<now, dbVars, planFile, config, launchVars, runnerVars, histVars,
                   crashes, edits, rt, schedules, failure_counts, artifacts, artifact_seq, files,
                   call, spc, jobs, job_i, seen_brokers, to_mark, polls>>

\* mutant: the trigger also switches the schedule back on
trigger_schedule_Reenable(schedule_id) ==
    /\ \E x \in schedules : x.schedule_id = schedule_id
    /\ schedules' = {IF x.schedule_id = schedule_id
                     THEN [x EXCEPT !.next_run_at = now, !.enabled = TRUE] ELSE x : x \in schedules}
    /\ call' = [op |-> "trigger_schedule", schedule_id |-> schedule_id]
    /\ UNCHANGED <<now, dbVars, planFile, config, launchVars, runnerVars, histVars,
                   crashes, edits, rt, failure_counts, artifacts, artifact_seq, files, pollVars>>

\* api.py lines 495-503, POST /v1/schedule/{schedule_id}/trigger for a
\* stored schedule: the schedule is made due now
trigger_schedule(schedule_id) ==
    /\ \E x \in schedules : x.schedule_id = schedule_id
    /\ schedules' = {IF x.schedule_id = schedule_id
                     THEN [x EXCEPT !.next_run_at = now] ELSE x : x \in schedules}
    /\ call' = [op |-> "trigger_schedule", schedule_id |-> schedule_id]
    /\ UNCHANGED <<now, dbVars, planFile, config, launchVars, runnerVars, histVars,
                   crashes, edits, rt, failure_counts, artifacts, artifact_seq, files, pollVars>>

\* ------------------------------------------------------ engine/retries.py
\* what one invocation of a task's handler does: it returns, or raises a
\* TaskExecutionError with transient set or not, or raises another exception
HandlerOutcomes == {"ok", "transient", "permanent", "other"}

\* the declarations of a plan task that matter to retries: the type, the
\* idempotent key of the plan file ("unset" when the plan does not set it)
\* and max_attempts (schemas/plan.py lines 33-47)
RetryTasks ==
    [type : {"scrape.rendered", "form.submit"}, method : {"GET"},
     idempotent : {"unset", "true", "false"}, max_attempts : 1..MaxAttempts]

\* PlanTask.idempotent: bool = True (schemas/plan.py line 39)
Idempotent(task) == IF task.idempotent = "unset" THEN TRUE ELSE task.idempotent = "true"

Min(a, b) == IF a < b THEN a ELSE b

\* runner.py line 264: RetryPolicy.attempts
PolicyAttempts(task) == Min(task.max_attempts, config.retry.attempts)

\* runner.py lines 263-303 and with_retries lines 37-41: the call of
\* execute_task; range(1, attempts + 1) is empty for attempts < 1
execute_task(task) ==
    /\ rt.pc = "idle"
    /\ rt' = [pc |-> IF PolicyAttempts(task) < 1 THEN "raised" ELSE "call",
              task |-> task, attempts |-> PolicyAttempts(task),
              idempotent |-> Idempotent(task), attempt |-> 1, calls |-> <<>>]
    /\ UNCHANGED <<now, dbVars, planFile, config, launchVars, runnerVars, histVars,
                   crashes, edits, schedules, failure_counts, artifacts, artifact_seq, files,
                   call, pollVars>>

\* with_retries lines 45-52: the conditions under which the loop breaks
GivesUp(r, outcome) ==
    \/ ~r.idempotent
    \/ outcome = "permanent"
    \/ r.attempt = r.attempts

\* with_retries lines 41-53: one iteration of the loop, fn() included
RetryCall(outcome) ==
    /\ rt.pc = "call"
    /\ rt' = [rt EXCEPT !.calls = Append(@, outcome),
                        !.pc = IF outcome = "ok" THEN "returned"
                               ELSE IF GivesUp(rt, outcome) THEN "raised" ELSE "call",
                        !.attempt = IF outcome # "ok" /\ ~GivesUp(rt, outcome)
                                    THEN @ + 1 ELSE @]
    /\ UNCHANGED <<now, dbVars, planFile, config, launchVars, runnerVars, histVars,
                   crashes, edits, schedules, failure_counts, artifacts, artifact_seq, files,
                   call, pollVars>>

\* the runner goes on after execute_task returned or raised
RetryDone ==
    /\ rt.pc \in {"returned", "raised"}
    /\ rt' = NoRetry
    /\ UNCHANGED <<now, dbVars, planFile, config, launchVars, runnerVars, histVars,
                   crashes, edits, schedules, failure_counts, artifacts, artifact_seq, files,
                   call, pollVars>>

\* ------------------------------------------------- engine/dead_letter.py
get_failure_count(broker_id) ==
    IF broker_id \in DOMAIN failure_counts THEN failure_counts[broker_id] ELSE 0

\* dead_letter.py lines 30-32
record_success(broker_id) ==
    /\ failure_counts' = [b \in DOMAIN failure_counts \ {broker_id} |-> failure_counts[b]]
    /\ call' = [op |-> "record_success", broker_id |-> broker_id]
    /\ UNCHANGED <<now, dbVars, planFile, config, launchVars, runnerVars, histVars,
                   crashes, edits, rt, schedules, artifacts, artifact_seq, files, pollVars>>

\* dead_letter.py lines 49-73: every enabled schedule of the broker is disabled
_disable_broker(broker_id) ==
    {IF x.broker_id = broker_id /\ x.enabled THEN [x EXCEPT !.enabled = FALSE] ELSE x :
        x \in schedules}

\* mutant: the threshold is passed only when the count exceeds it
ThresholdReached_Above(count) == count > DEFAULT_MAX_CONSECUTIVE_FAILURES

\* dead_letter.py line 44
ThresholdReached(count) == count >= DEFAULT_MAX_CONSECUTIVE_FAILURES

\* dead_letter.py lines 34-47
record_failure(broker_id) ==
    LET count == get_failure_count(broker_id) + 1
    IN /\ count <= MaxFailureCount
       /\ failure_counts' = [b \in DOMAIN failure_counts \cup {broker_id} |->
                                IF b = broker_id THEN count ELSE failure_counts[b]]
       /\ schedules' = IF ThresholdReached(count) THEN _disable_broker(broker_id) ELSE schedules
       /\ call' = [op |-> "record_failure", broker_id |-> broker_id,
                   ret |-> ThresholdReached(count)]
       /\ UNCHANGED <<now, dbVars, planFile, config, launchVars, runnerVars, histVars,
                      crashes, edits, rt, artifacts, artifact_seq, files, pollVars>>

\* ---------------------------------------------- engine/artifact_cleanup.py
\* kinds of artifacts: the four the sweeper knows and a task type, which
\* the runner uses as the kind of a task's output (runner.py line 318)
ArtifactKinds == {"html", "screenshot", "confirmation", "receipt", "scrape.rendered"}

RetentionDays == {-1, 0, 1}

\* engine/artifacts.py persist_artifact: a row with a fresh id, created now
persist_artifact(kind) ==
    /\ artifact_seq < MaxArtifacts
    /\ artifact_seq' = artifact_seq + 1
    /\ artifacts' = artifacts \cup
           {[artifact_id |-> artifact_seq + 1, kind |-> kind, created_at |-> now]}
    /\ files' = files \cup {artifact_seq + 1}
    /\ UNCHANGED <<now, dbVars, planFile, config, launchVars, runnerVars, histVars,
                   crashes, edits, rt, schedules, failure_counts, call, pollVars>>

\* line 49: (now - artifact.created_at).days, whole days rounded down
age_days(artifact, t) == (t - artifact.created_at) \div TicksPerDay

\* mutant: an artifact as old as the retention is deleted too
AgeExceeds_OrEqual(age, days) == age >= days

\* lines 53, 55, 58
AgeExceeds(age, days) == age > days

\* lines 50-59
should_delete(artifact, t) ==
    LET age == age_days(artifact, t)
    IN IF artifact.kind = "html" /\ config.pii.artifact_retention_html_days >= 0
       THEN AgeExceeds(age, config.pii.artifact_retention_html_days)
       ELSE IF artifact.kind = "screenshot" /\ config.pii.artifact_retention_screenshot_days >= 0
       THEN AgeExceeds(age, config.pii.artifact_retention_screenshot_days)
       ELSE IF artifact.kind \in {"confirmation", "receipt"}
       THEN /\ config.pii.artifact_retention_confirmation_days >= 0
            /\ AgeExceeds(age, config.pii.artifact_retention_confirmation_days)
       ELSE FALSE

\* lines 81-90, _delete_file for the selected artifacts: the files that
\* os.remove removes; any other selected file is missing at the path or its
\* removal raises OSError
DeletedFiles(selected) == SUBSET ({a.artifact_id : a \in selected} \cap files)

\* lines 38-79: one pass over all artifacts, then the commit
cleanup_once ==
    /\ artifacts' = {a \in artifacts : ~should_delete(a, now)}
    /\ \E removed \in DeletedFiles({a \in artifacts : should_delete(a, now)}) :
          files' = files \ removed
    /\ call' = [op |-> "cleanup_once", at |-> now, before |-> artifacts,
                after |-> {a \in artifacts : ~should_delete(a, now)}]
    /\ UNCHANGED <<now, dbVars, planFile, config, launchVars, runnerVars, histVars,
                   crashes, edits, rt, schedules, failure_counts, artifact_seq, pollVars>>

\* ------------------------------------------------------- specifications
\* PolicyConfig defaults (config.py lines 21-23); run_timeout_ms in clock units
DefaultConfig ==
    [policy |-> [require_idempotency_key |-> TRUE, side_effects_require_approval |-> TRUE],
     run_timeout_ms |-> 2,
     pii |-> [artifact_retention_html_days |-> 7,
              artifact_retention_screenshot_days |-> 30,
              artifact_retention_confirmation_days |-> -1],
     retry |-> [attempts |-> 3]]

\* one launch with key "k1"
OneLaunch ==
    /\ lpc = [l \in Launchers |-> IF l = "l1" THEN "request" ELSE "done"]
    /\ lreq = [l \in Launchers |-> "k1"]

\* Spec: two runners, one launched run of the form.submit plan, approvals, the clock
Init ==
    /\ InitCommon
    /\ now = 0
    /\ planFile = PlanFile("form", 1)
    /\ config = DefaultConfig
    /\ pc = [r \in Runners |-> "idle"]
    /\ OneLaunch

Next ==
    \/ Tick
    \/ \E l \in Launchers : StartRunLookup(l)
    \/ \E l \in Launchers : StartRunInsert(l)
    \/ \E a \in run_approvals, d \in {"approve", "deny"} : resolve_approval(a, d)
    \/ \E r \in Runners : RunnerStep(r)

Spec == Init /\ [][Next]_vars

\* SpecGate: Spec for either plan
InitGate ==
    /\ InitCommon
    /\ now = 0
    /\ \E k \in PlanKinds : planFile = PlanFile(k, 1)
    /\ config = DefaultConfig
    /\ pc = [r \in Runners |-> "idle"]
    /\ OneLaunch

SpecGate == InitGate /\ [][Next]_vars

\* SpecEdit: Spec with edits of the plan file
NextEdit == Next \/ EditPlan

SpecEdit == Init /\ [][NextEdit]_vars

\* SpecCrash: Spec with a runner process being killed
NextCrash == Next \/ \E r \in Runners : Crash(r)

SpecCrash == Init /\ [][NextCrash]_vars

\* SpecLaunch: POST /v1/runs requests racing each other, with any keys and
\* under either setting of policy.require_idempotency_key (config.py line 187)
InitLaunch ==
    /\ InitCommon
    /\ now = 0
    /\ planFile = PlanFile("form", 1)
    /\ \E req \in BOOLEAN :
           config = [DefaultConfig EXCEPT !.policy.require_idempotency_key = req]
    /\ pc = [r \in Runners |-> "idle"]
    /\ lpc = [l \in Launchers |-> IF l = "l3" THEN "done" ELSE "request"]
    /\ \E ka, kb \in {None, "", "k1"} :
           lreq = [l \in Launchers |-> IF l = "l1" THEN ka ELSE IF l = "l2" THEN kb ELSE None]

NextLaunch ==
    \/ Tick
    \/ EditPlan
    \/ \E l \in Launchers : StartRunLookup(l)
    \/ \E l \in Launchers : StartRunInsert(l)

SpecLaunch == InitLaunch /\ [][NextLaunch]_vars

\* SpecQueue: one executor process (runner r1) and two launched runs; the
\* runner's loop keeps ticking and the launch requests are served
InitQueue ==
    /\ InitCommon
    /\ now = 0
    /\ planFile = PlanFile("form", 1)
    /\ config = DefaultConfig
    /\ pc = [r \in Runners |-> IF r = "r1" THEN "idle" ELSE "dead"]
    /\ lpc = [l \in Launchers |-> IF l = "l3" THEN "done" ELSE "request"]
    /\ lreq = [l \in Launchers |-> IF l = "l1" THEN "k1" ELSE "k2"]

SpecQueue ==
    /\ InitQueue
    /\ [][Next]_vars
    /\ WF_vars(RunnerStep("r1"))
    /\ \A l \in Launchers : WF_vars(StartRunLookup(l) \/ StartRunInsert(l))

\* SpecCancel: Spec with external cancellation of the run
NextCancel == Next \/ \E id \in RunIds : Cancel(id)

SpecCancel == Init /\ [][NextCancel]_vars

\* SpecFailures: one executor process and three launched runs of the plan
\* of broker X (plan_id broker_X), whose schedule for profile p1 exists
InitFailures ==
    /\ InitCommon
    /\ now = 0
    /\ planFile = PlanFile("form", 1)
    /\ config = DefaultConfig
    /\ pc = [r \in Runners |-> IF r = "r1" THEN "idle" ELSE "dead"]
    /\ lpc = [l \in Launchers |-> "request"]
    /\ lreq = [l \in Launchers |-> IF l = "l1" THEN "k1" ELSE IF l = "l2" THEN "k2" ELSE "k3"]

NextFailures ==
    \/ \E p \in {"p1"} : initialize_for_profile(p, Catalog)
    \/ \E l \in Launchers : StartRunLookup(l)
    \/ \E l \in Launchers : StartRunInsert(l)
    \/ \E a \in run_approvals, d \in {"approve", "deny"} : resolve_approval(a, d)
    \/ \E r \in Runners : RunnerStep(r)

SpecFailures == InitFailures /\ [][NextFailures]_vars

\* SpecDeadLetter: the dead-letter tracker called by a reporter, with
\* schedules created for new profiles from one-broker catalogs
InitIdle ==
    /\ InitCommon
    /\ now = 0
    /\ planFile = PlanFile("form", 1)
    /\ config = DefaultConfig
    /\ pc = [r \in Runners |-> "idle"]
    /\ lpc = [l \in Launchers |-> "done"]
    /\ lreq = [l \in Launchers |-> None]

NextDeadLetter ==
    \/ \E b \in Brokers : record_failure(b)
    \/ \E b \in Brokers : record_success(b)
    \/ \E p \in Profiles, e \in CatalogEntries : initialize_for_profile(p, <<e>>)

SpecDeadLetter == InitIdle /\ [][NextDeadLetter]_vars

\* SpecCleanup: artifacts are persisted, days pass, the sweeper runs; any
\* retention setting
InitCleanup ==
    /\ InitCommon
    /\ now = 0
    /\ planFile = PlanFile("form", 1)
    /\ \E h, sc, c \in RetentionDays :
           config = [DefaultConfig EXCEPT !.pii =
                        [artifact_retention_html_days |-> h,
                         artifact_retention_screenshot_days |-> sc,
                         artifact_retention_confirmation_days |-> c]]
    /\ pc = [r \in Runners |-> "idle"]
    /\ lpc = [l \in Launchers |-> "done"]
    /\ lreq = [l \in Launchers |-> None]

NextCleanup ==
    \/ Tick
    \/ \E k \in ArtifactKinds : persist_artifact(k)
    \/ cleanup_once

SpecCleanup == InitCleanup /\ [][NextCleanup]_vars

\* SpecSchedule: schedules are initialised for profiles from any catalog, at
\* any time of the clock
InitSchedule ==
    /\ InitCommon
    /\ now \in {0, MaxTime}
    /\ planFile = PlanFile("form", 1)
    /\ config = DefaultConfig
    /\ pc = [r \in Runners |-> "idle"]
    /\ lpc = [l \in Launchers |-> "done"]
    /\ lreq = [l \in Launchers |-> None]

NextSchedule == \E p \in Profiles, c \in BrokerLists : initialize_for_profile(p, c)

SpecSchedule == InitSchedule /\ [][NextSchedule]_vars

\* SpecPoll: the scheduler's ticks over the schedules of both profiles, the
\* run-creation hook, the dead-letter tracker and the clock
\* the catalog of a deployment whose brokers all have a plan
CatalogWithPlans ==
    <<[id |-> "X", plan_file |-> "plan.yaml", recheck_days |-> 7],
      [id |-> "Y", plan_file |-> "plan.yaml", recheck_days |-> 7]>>

\* both profiles have been created, their schedules are due at once, and the
\* dead-letter tracker has counted two failures of broker X
InitPoll ==
    /\ runs = [x \in {} |-> 0]
    /\ run_tasks = {}
    /\ run_approvals = {}
    /\ lres = [l \in Launchers |-> None]
    /\ lplan = [l \in Launchers |-> NoPlan]
    /\ cand = [r \in Runners |-> <<>>]
    /\ mem = [r \in Runners |-> NoObj]
    /\ plan = [r \in Runners |-> NoPlan]
    /\ idx = [r \in Runners |-> 0]
    /\ row = [r \in Runners |-> NoRow]
    /\ claimNow = [r \in Runners |-> 0]
    /\ state = [r \in Runners |-> {}]
    /\ wait = [r \in Runners |-> Null]
    /\ invoked = [x \in RunIds \X TaskIds |-> 0]
    /\ execLog = [r \in Runners |-> <<>>]
    /\ resume = [r \in Runners |-> None]
    /\ crashes = 0
    /\ edits = 0
    /\ now = 0
    /\ schedules =
          InitializeLoop([rows |-> InitializeLoop([rows |-> {}, ids |-> <<>>, raised |-> FALSE],
                                                  "p1", CatalogWithPlans, 1).rows,
                          ids |-> <<>>, raised |-> FALSE], "p2", CatalogWithPlans, 1).rows
    /\ failure_counts = [b \in {"X"} |-> DEFAULT_MAX_CONSECUTIVE_FAILURES - 1]
    /\ artifacts = {}
    /\ artifact_seq = 0
    /\ files = {}
    /\ call = NoCall
    /\ spc = "idle"
    /\ jobs = <<>>
    /\ job_i = 0
    /\ seen_brokers = {}
    /\ to_mark = NoPending
    /\ scan_runs = <<>>
    /\ polls = 0
    /\ rt = NoRetry
    /\ planFile = PlanFile("form", 1)
    /\ config = DefaultConfig
    /\ pc = [r \in Runners |-> "idle"]
    /\ lpc = [l \in Launchers |-> "done"]
    /\ lreq = [l \in Launchers |-> None]

NextPoll ==
    \/ Tick
    \/ get_due_jobs
    \/ \E o \in HookOutcomes : PollJob(o)
    \/ mark_started
    \/ \E i \in 1..MaxScanRuns : FinishScanRun(i)
    \/ record_failure("X")

SpecPoll == InitPoll /\ [][NextPoll]_vars

\* SpecRetry: execute_task for any task declaration, any retry.attempts of
\* the configuration and any outcomes of the handler
InitRetry ==
    /\ InitCommon
    /\ now = 0
    /\ planFile = PlanFile("form", 1)
    /\ \E n \in 0..MaxAttempts : config = [DefaultConfig EXCEPT !.retry.attempts = n]
    /\ pc = [r \in Runners |-> "idle"]
    /\ lpc = [l \in Launchers |-> "done"]
    /\ lreq = [l \in Launchers |-> None]

NextRetry ==
    \/ \E task \in RetryTasks : execute_task(task)
    \/ \E o \in HandlerOutcomes : RetryCall(o)
    \/ RetryDone

SpecRetry == InitRetry /\ [][NextRetry]_vars

\* SpecDeps: as Spec, with the form plan or a plan whose first task depends
\* on a later one
InitDeps ==
    /\ InitCommon
    /\ now = 0
    /\ \E k \in {"form", "misordered"} : planFile = PlanFile(k, 1)
    /\ config = DefaultConfig
    /\ pc = [r \in Runners |-> "idle"]
    /\ OneLaunch

SpecDeps == InitDeps /\ [][Next]_vars

\* SpecTimeout: as Spec, under a wall-clock timeout short enough to expire
InitTimeout ==
    /\ InitCommon
    /\ now = 0
    /\ planFile = PlanFile("form", 1)
    /\ config = [DefaultConfig EXCEPT !.run_timeout_ms = 1]
    /\ pc = [r \in Runners |-> "idle"]
    /\ OneLaunch

SpecTimeout == InitTimeout /\ [][Next]_vars

\* SpecMissing: as Spec, with the plan file being removed from plans_root
NextMissing == Next \/ RemovePlan

SpecMissing == Init /\ [][NextMissing]_vars

\* SpecDelay: as Spec, for a plan whose first task is a wait.delay that
\* sleeps inline or one that is deferred
InitDelay ==
    /\ InitCommon
    /\ now = 0
    /\ \E k \in DelayKinds : planFile = PlanFile(k, 1)
    /\ config = DefaultConfig
    /\ pc = [r \in Runners |-> "idle"]
    /\ OneLaunch

SpecDelay == InitDelay /\ [][Next]_vars

\* SpecEnabled: every operation on the schedules: the scheduler's ticks, the
\* dead-letter tracker, the creation of profiles and the trigger endpoint.
\* Profile p1 has been created, the tracker has counted two failures of
\* broker X, and the scheduler runs without a run-creation hook
\* (scheduler.py line 36).
InitEnabled ==
    /\ runs = [x \in {} |-> 0]
    /\ run_tasks = {}
    /\ run_approvals = {}
    /\ lres = [l \in Launchers |-> None]
    /\ lplan = [l \in Launchers |-> NoPlan]
    /\ cand = [r \in Runners |-> <<>>]
    /\ mem = [r \in Runners |-> NoObj]
    /\ plan = [r \in Runners |-> NoPlan]
    /\ idx = [r \in Runners |-> 0]
    /\ row = [r \in Runners |-> NoRow]
    /\ claimNow = [r \in Runners |-> 0]
    /\ state = [r \in Runners |-> {}]
    /\ wait = [r \in Runners |-> Null]
    /\ invoked = [x \in RunIds \X TaskIds |-> 0]
    /\ execLog = [r \in Runners |-> <<>>]
    /\ resume = [r \in Runners |-> None]
    /\ crashes = 0
    /\ edits = 0
    /\ now = 0
    /\ schedules = InitializeLoop([rows |-> {}, ids |-> <<>>, raised |-> FALSE],
                                  "p1", CatalogWithPlans, 1).rows
    /\ failure_counts = [b \in {"X"} |-> DEFAULT_MAX_CONSECUTIVE_FAILURES - 1]
    /\ artifacts = {}
    /\ artifact_seq = 0
    /\ files = {}
    /\ call = NoCall
    /\ spc = "idle"
    /\ jobs = <<>>
    /\ job_i = 0
    /\ seen_brokers = {}
    /\ to_mark = NoPending
    /\ scan_runs = <<>>
    /\ polls = 0
    /\ rt = NoRetry
    /\ planFile = PlanFile("form", 1)
    /\ config = DefaultConfig
    /\ pc = [r \in Runners |-> "idle"]
    /\ lpc = [l \in Launchers |-> "done"]
    /\ lreq = [l \in Launchers |-> None]

NextEnabled ==
    \/ Tick
    \/ get_due_jobs
    \/ PollJob("none")
    \/ mark_started
    \/ record_failure("X")
    \/ record_success("X")
    \/ initialize_for_profile("p1", CatalogWithPlans)
    \/ \E x \in schedules : trigger_schedule(x.schedule_id)

SpecEnabled == InitEnabled /\ [][NextEnabled]_vars

\* ================================================================ claims
HasSucceeded(run_id, task_id) ==
    \E t \in run_tasks : t.run_id = run_id /\ t.task_id = task_id /\ t.status = "succeeded"

\* the runner whose step this is: it holds a run object and moves
Acts(r) == mem[r].run_id # None /\ pc'[r] # pc[r]

\* C1: once another runner holds the claim on a run, a write of the previous
\* owner to that run affects zero rows: the run row stays exactly as it is.
C1_StaleOwnerWritesNothing ==
    [][\A r \in Runners :
          (Acts(r) /\ runs[mem[r].run_id].claimed_by \notin {r, None})
              => runs'[mem[r].run_id] = runs[mem[r].run_id]]_vars

\* C2: a runner becomes the holder of a run's claim only if the run is
\* queued, running or blocked_for_approval and the claim it replaces is null
\* or expired; an unexpired claim of another runner is never replaced.
C2_ClaimOnlyWhenFree ==
    [][\A id \in DOMAIN runs :
          (runs'[id].claimed_by # runs[id].claimed_by /\ runs'[id].claimed_by # None)
              => /\ runs[id].status \in {"queued", "running", "blocked_for_approval"}
                 /\ \/ runs[id].claimed_by = None
                    \/ runs[id].claim_expires_at = Null
                    \/ runs[id].claim_expires_at < now]_vars

\* C2 witness: a runner attempts the conditional update on a run on which
\* another runner holds an unexpired claim.
C2_Witness ==
    \E r \in Runners, o \in Runners :
        /\ r # o
        /\ pc[r] = "claim"
        /\ LET id == Head(cand[r]).run_id
           IN /\ runs[id].claimed_by = o
              /\ runs[id].claim_expires_at >= now
              /\ pc[o] \notin {"idle", "dead"}

\* C3: no handler is invoked for a task that already has a succeeded Task
\* Instance in that run.
C3_NoInvokeAfterSucceeded ==
    [][\A x \in RunIds \X TaskIds :
          invoked'[x] # invoked[x] => ~HasSucceeded(x[1], x[2])]_vars

\* the side-effect tasks as the policy names them
IsSideEffectTask(task) ==
    \/ task.type \in {"form.submit", "email.send", "email.click_verify", "broker.update_status"}
    \/ task.type = "http.request" /\ task.method \notin {"GET", "HEAD", "OPTIONS"}

\* C4: with side_effects_require_approval set, a side-effect task's handler
\* is invoked only while an Approval of that (run, task) is approved.
C4_SideEffectNeedsApproval ==
    [][\A r \in Runners :
          (execLog'[r] # execLog[r] /\ execLog'[r] # <<>>
             /\ config.policy.side_effects_require_approval
             /\ IsSideEffectTask(plan[r].tasks[idx[r]]))
              => \E a \in run_approvals :
                    /\ a.run_id = mem[r].run_id
                    /\ a.task_id = plan[r].tasks[idx[r]].id
                    /\ a.status = "approved"]_vars

\* C4 witness: the handler of the non-safe http.request task is running.
C4_Witness ==
    \E r \in Runners :
        /\ pc[r] = "in_handler"
        /\ plan[r].tasks[idx[r]].type = "http.request"
        /\ plan[r].tasks[idx[r]].method = "POST"

\* C5: at most one run per idempotency key exists; two accepted launches
\* that carry the same key return the same run_id; a launch leaves the
\* existing runs as they are.
C5_OneRunPerKey ==
    /\ [](\A id1, id2 \in DOMAIN runs :
             (runs[id1].idempotency_key # None
              /\ runs[id1].idempotency_key = runs[id2].idempotency_key) => id1 = id2)
    /\ [](\A a, b \in Launchers :
             (/\ lpc[a] = "done" /\ lpc[b] = "done"
              /\ lreq[a] # None /\ lreq[a] = lreq[b]
              /\ lres[a] # "400" /\ lres[b] # "400")
                 => lres[a] \in DOMAIN runs /\ lres[a] = lres[b])
    /\ [][\A id \in DOMAIN runs : runs'[id] = runs[id]]_vars

\* C6: an execution whose reloaded plan hashes differently from the run's
\* stored plan_hash sets the run to failed with PLAN_HASH_MISMATCH and ends
\* there; a task handler is invoked only with a plan whose hash equals the
\* stored plan_hash.
C6_PlanHashGate ==
    [][\A r \in Runners :
          /\ (/\ pc[r] = "check_plan"
              /\ pc'[r] # pc[r]
              /\ hash_plan(load_plan(planFile)) # runs[mem[r].run_id].plan_hash)
                 => /\ runs'[mem[r].run_id].status = "failed"
                    /\ runs'[mem[r].run_id].error_code = "PLAN_HASH_MISMATCH"
                    /\ pc'[r] = "idle"
                    /\ invoked' = invoked
          /\ (execLog'[r] # execLog[r] /\ execLog'[r] # <<>>)
                 => hash_plan(plan[r]) = runs[mem[r].run_id].plan_hash]_vars

\* position of a task in the plan's declared order
TaskIndex(p, task_id) == CHOOSE i \in DOMAIN p.tasks : p.tasks[i].id = task_id

\* C7: in an execution that starts after the approval of the blocked task T
\* was granted, a handler invocation is either T's or that of a task after T
\* made once T has succeeded; no task before T is invoked.
C7_ResumeAtBlockedTask ==
    [][\A r \in Runners :
          (execLog'[r] # execLog[r] /\ execLog'[r] # <<>> /\ resume[r] # None)
              => LET t == plan[r].tasks[idx[r]].id
                 IN \/ t = resume[r]
                    \/ /\ TaskIndex(plan[r], t) > TaskIndex(plan[r], resume[r])
                       /\ HasSucceeded(mem[r].run_id, resume[r])]_vars

\* C7 witness: a resumed execution has invoked the blocked task B, and only
\* it, while A's Task Instance from the earlier execution is succeeded.
C7_Witness ==
    \E r \in Runners :
        /\ resume[r] = "B"
        /\ execLog[r] = <<"B">>
        /\ HasSucceeded(mem[r].run_id, "A")
        /\ invoked[<<mem[r].run_id, "A">>] = 1

\* C8: while the claim on a non-terminal run is held by a crashed runner, the
\* run does not become failed unless a task handler failed, an approval was
\* denied or the wall-clock timeout passed: recovery by a live runner leads
\* to succeeded.
C8_CrashedRunRecovers ==
    [][\A id \in DOMAIN runs : \A r \in Runners :
          (/\ pc[r] = "dead"
           /\ runs[id].claimed_by = r
           /\ runs[id].status \notin TerminalStatuses
           /\ runs'[id].status = "failed")
              => \/ runs'[id].error_code \in {"APPROVAL_DENIED", "RUN_TIMEOUT"}
                 \/ runs'[id].error_message = ExcMessage.except_handler]_vars

\* no approval of the run is waiting for a decision
ApprovalsResolved(id) == \A a \in run_approvals : a.run_id = id => a.status # "pending"

\* C9: every launched run whose approvals are all eventually resolved
\* eventually has status succeeded or failed, the runner loop being fair.
C9_EveryRunTerminates ==
    \A id \in RunIds :
        <>[]ApprovalsResolved(id)
            => <>(id \in DOMAIN runs /\ runs[id].status \in {"succeeded", "failed"})

\* C10: a run whose status is succeeded, failed or canceled keeps that status.
C10_TerminalIsFinal ==
    [][\A id \in DOMAIN runs :
          runs[id].status \in {"succeeded", "failed", "canceled"}
              => runs'[id].status = runs[id].status]_vars

\* C11: once a run is canceled, the lease renewal of a runner executing it
\* fails, no task handler of the run is invoked after that renewal, and the
\* run's status stays canceled.
C11_CancelStopsRunner ==
    [][\A r \in Runners :
          (/\ mem[r].run_id # None
           /\ runs[mem[r].run_id].status = "canceled")
              => /\ runs'[mem[r].run_id].status = "canceled"
                 /\ (pc[r] \in {"renew", "loop_renew"} /\ pc'[r] # pc[r])
                        => pc'[r] \in {"idle", "except_claim_lost"}]_vars

\* the runs the runner has marked failed with TASK_EXECUTION_FAILED
TaskFailedRuns ==
    {id \in DOMAIN runs : runs[id].status = "failed"
                          /\ runs[id].error_code = "TASK_EXECUTION_FAILED"}

\* C12: once the runner has marked three runs of broker X's plan failed with
\* TASK_EXECUTION_FAILED and none has succeeded, every schedule of broker X
\* is disabled.
C12_ThreeFailuresDisableBroker ==
    (/\ Cardinality(TaskFailedRuns) >= DEFAULT_MAX_CONSECUTIVE_FAILURES
     /\ \A id \in DOMAIN runs : runs[id].status # "succeeded")
        => \A x \in schedules : x.broker_id = "X" => ~x.enabled

\* the consecutive failures recorded for a broker before a call
FailuresSoFar(b) == IF b \in DOMAIN failure_counts THEN failure_counts[b] ELSE 0

RetentionOf(kind) ==
    IF kind = "html" THEN config.pii.artifact_retention_html_days
    ELSE IF kind = "screenshot" THEN config.pii.artifact_retention_screenshot_days
    ELSE config.pii.artifact_retention_confirmation_days

\* whole days between two clock readings
WholeDays(from, to) == CHOOSE d \in 0..MaxTime : d * TicksPerDay <= to - from
                                              /\ to - from < (d + 1) * TicksPerDay

\* C14: a sweep deletes an artifact if and only if its kind is html,
\* screenshot, confirmation or receipt, the retention of that kind is not
\* negative and its age in whole days is greater than that retention.
C14_SweepSelection ==
    call.op = "cleanup_once" =>
        call.after = {a \in call.before :
                        ~(/\ a.kind \in {"html", "screenshot", "confirmation", "receipt"}
                          /\ RetentionOf(a.kind) >= 0
                          /\ WholeDays(a.created_at, call.at) > RetentionOf(a.kind))}

\* C14 witness: a sweep has deleted an artifact and kept one whose age
\* equals its retention
C14_Witness ==
    /\ call.op = "cleanup_once"
    /\ call.before \ call.after # {}
    /\ \E a \in call.after :
           /\ a.kind \in {"html", "screenshot", "confirmation", "receipt"}
           /\ WholeDays(a.created_at, call.at) = RetentionOf(a.kind)

\* the positions of a catalog that list broker b with a plan file
ListedWithPlan(bs, b) == {i \in DOMAIN bs : bs[i].id = b /\ bs[i].plan_file \notin {None, ""}}

\* C15: a call creates, for each listed broker with a plan file and no
\* schedule yet for the profile, exactly one enabled schedule due now with the
\* broker's recheck interval, and nothing else; there is never more than one
\* schedule per (broker_id, profile_id).
C15_OneSchedulePerBrokerProfile ==
    /\ [](\A x, y \in schedules :
             (x.broker_id = y.broker_id /\ x.profile_id = y.profile_id) => x = y)
    /\ [][call'.op = "initialize_for_profile" =>
            LET p == call'.profile_id
                bs == call'.catalog_brokers
                due == {b \in Brokers :
                          /\ ListedWithPlan(bs, b) # {}
                          /\ ~\E x \in schedules : x.broker_id = b /\ x.profile_id = p}
                created == schedules' \ schedules
            IN /\ schedules \subseteq schedules'
               /\ Len(call'.ret) = Cardinality(due)
               /\ \A b \in due : Cardinality({x \in created : x.broker_id = b}) = 1
               /\ \A x \in created :
                      LET first == CHOOSE i \in ListedWithPlan(bs, x.broker_id) :
                                       \A j \in ListedWithPlan(bs, x.broker_id) : i <= j
                      IN /\ x.broker_id \in due
                         /\ x.profile_id = p
                         /\ x.enabled
                         /\ x.next_run_at = now
                         /\ x.interval_days = IF bs[first].recheck_days = Null
                                              THEN DEFAULT_RECHECK_DAYS
                                              ELSE bs[first].recheck_days]_vars

\* C15 witness: a catalog of a broker with a plan and one without has been
\* initialised for a profile: one schedule created, none for the other broker
C15_Witness ==
    /\ call.op = "initialize_for_profile"
    /\ Len(call.catalog_brokers) = 2
    /\ ListedWithPlan(call.catalog_brokers, "X") # {}
    /\ ListedWithPlan(call.catalog_brokers, "Y") = {}
    /\ \E i \in DOMAIN call.catalog_brokers : call.catalog_brokers[i].id = "Y"
    /\ Len(call.ret) = 1
    /\ \E x \in schedules : x.schedule_id = call.ret[1] /\ x.profile_id = call.profile_id
    /\ ~\E y \in schedules : y.broker_id = "Y" /\ y.profile_id = call.profile_id

\* C16: no two task-handler invocations of the same run are in progress at
\* the same time, whichever runners perform them.
C16_OneHandlerPerRun ==
    \A r1, r2 \in Runners :
        (/\ r1 # r2
         /\ pc[r1] = "in_handler"
         /\ pc[r2] = "in_handler") => mem[r1].run_id # mem[r2].run_id

\* nothing is left to happen to the run: no runner is working on it, no
\* runner can claim it and none of its approvals awaits a decision
AtRest(id) ==
    /\ \A r \in Runners : pc[r] \in {"idle", "dead"} \/ mem[r].run_id # id
    /\ runs[id].status \notin ClaimableStatuses
    /\ \A a \in run_approvals : a.run_id = id => a.status # "pending"

\* C17: once the Approval of a gated task is denied, the task's handler has
\* not been and is not invoked, and the run comes to rest in status failed with
\* error_code APPROVAL_DENIED.
C17_DenyFailsRun ==
    \A a \in run_approvals :
        a.status = "denied" =>
            /\ invoked[<<a.run_id, a.task_id>>] = 0
            /\ AtRest(a.run_id) =>
                   /\ runs[a.run_id].status = "failed"
                   /\ runs[a.run_id].error_code = "APPROVAL_DENIED"

\* C18: a succeeded run has a succeeded Task Instance for every task of its
\* plan, and the tasks with a succeeded Task Instance always form a prefix of
\* the plan's declared order.
C18_SucceededTasksInOrder ==
    \A id \in DOMAIN runs :
        /\ runs[id].status = "succeeded" =>
               \A i \in DOMAIN planFile.tasks : HasSucceeded(id, planFile.tasks[i].id)
        /\ \A i, j \in DOMAIN planFile.tasks :
               (i < j /\ HasSucceeded(id, planFile.tasks[j].id))
                   => HasSucceeded(id, planFile.tasks[i].id)

\* C18 witness: a run has succeeded after its last task's Task Instance did
C18_Witness ==
    \E id \in DOMAIN runs :
        /\ runs[id].status = "succeeded"
        /\ Len(planFile.tasks) = 2
        /\ HasSucceeded(id, planFile.tasks[2].id)

\* C19: there is at most one Task Instance row per (run_id, task_id).
C19_OneTaskInstance ==
    \A t1, t2 \in run_tasks :
        (t1.run_id = t2.run_id /\ t1.task_id = t2.task_id) => t1.task_run_id = t2.task_run_id

\* C20: there is at most one Approval row per (run_id, task_id), and a
\* resolved Approval never changes: no request changes an approved or denied
\* Approval.
C20_OneApprovalFinal ==
    /\ [](\A a1, a2 \in run_approvals :
             (a1.run_id = a2.run_id /\ a1.task_id = a2.task_id)
                 => a1.approval_id = a2.approval_id)
    /\ [][\A a \in run_approvals :
             a.status \in {"approved", "denied"} => a \in run_approvals']_vars

\* the edges of the run lifecycle
StatusEdges ==
    {<<"queued", "running">>, <<"running", "succeeded">>, <<"running", "failed">>,
     <<"running", "blocked_for_approval">>, <<"blocked_for_approval", "queued">>,
     <<"blocked_for_approval", "failed">>}

\* C21: every change of a run's status follows one of the lifecycle edges.
C21_StatusEdges ==
    [][\A id \in DOMAIN runs :
          runs'[id].status # runs[id].status
              => <<runs[id].status, runs'[id].status>> \in StatusEdges]_vars

\* the jobs of the tick that survive the broker deduplication: the first job
\* of each broker
Survivors == {i \in DOMAIN jobs : \A j \in DOMAIN jobs : j < i => jobs[j].broker_id # jobs[i].broker_id}

\* C22: when a tick of the scheduler ends, every due schedule that survived
\* the broker deduplication has been advanced in that tick: last_run_at is a
\* time of the tick, next_run_at is interval_days days later, and last_run_id is
\* the id of the run the hook created or else a synthetic sentinel.
C22_TickAdvancesSchedules ==
    [][(spc # "idle" /\ spc' = "idle") =>
          \A i \in Survivors :
              \E x \in schedules' :
                  /\ x.schedule_id = jobs[i].schedule_id
                  /\ x.last_run_at # Null
                  /\ x.last_run_at >= jobs[i].next_run_at
                  /\ x.next_run_at = x.last_run_at + x.interval_days * TicksPerDay
                  /\ \/ \E k \in DOMAIN scan_runs' :
                            /\ scan_runs'[k].run_id = x.last_run_id
                            /\ scan_runs'[k].schedule_id = x.schedule_id
                     \/ x.last_run_id[1] = "skipped"]_vars

\* C23: when the scheduler creates a run for a broker, it has created no
\* other run for that broker in the same tick, and every run it created
\* earlier for that broker is terminal.
C23_OneRunPerBroker ==
    [][Len(scan_runs') > Len(scan_runs) =>
          LET new == scan_runs'[Len(scan_runs')]
          IN \A k \in DOMAIN scan_runs :
                 scan_runs[k].broker_id = new.broker_id =>
                     /\ scan_runs[k].poll # new.poll
                     /\ scan_runs[k].status \in TerminalStatuses]_vars

\* C24: the scheduler creates a run for a schedule only while that schedule
\* is enabled and due.
C24_RunOnlyForEnabledDue ==
    [][Len(scan_runs') > Len(scan_runs) =>
          LET new == scan_runs'[Len(scan_runs')]
          IN \E x \in schedules :
                 /\ x.schedule_id = new.schedule_id
                 /\ x.enabled
                 /\ x.next_run_at <= now]_vars

\* C25: a sweep removes the row of an artifact only if the artifact's file
\* has been removed: no file is left on disk for a row the sweep deleted.
C25_RowKeptWhileFileRemains ==
    [][call'.op = "cleanup_once" =>
          \A a \in artifacts \ artifacts' : a.artifact_id \notin files']_vars

\* the last element of a non-empty sequence
Last(s) == s[Len(s)]

\* C26: with_retries invokes the handler again only after a transient task
\* error, for an idempotent task and with attempts left; after any other
\* failure it raises without another invocation.
C26_RetryOnlyTransientIdempotent ==
    [][(rt.pc = "call" /\ rt' # rt) =>
          /\ rt.calls # <<>> =>
                 /\ Last(rt.calls) = "transient"
                 /\ rt.idempotent
                 /\ Len(rt.calls) < rt.attempts
          /\ (/\ Last(rt'.calls) # "ok"
              /\ \/ Last(rt'.calls) # "transient"
                 \/ ~rt.idempotent
                 \/ Len(rt'.calls) = rt.attempts) => rt'.pc = "raised"]_vars

\* C27: when execute_task is over, the handler has been invoked at least
\* once and at most min(task.max_attempts, retry.attempts) times, and exactly
\* once for a task that is not idempotent.
C27_AttemptBudget ==
    rt.pc \in {"returned", "raised"} =>
        /\ Len(rt.calls) >= 1
        /\ Len(rt.calls) <= Min(rt.task.max_attempts, config.retry.attempts)
        /\ ~rt.idempotent => Len(rt.calls) = 1

\* C28: a side-effect task whose plan definition does not set idempotent is
\* not retried: after a transient error of its first invocation execute_task
\* raises without a second invocation.
C28_SideEffectNotRetried ==
    (/\ rt.pc # "idle"
     /\ IsSideEffectTask(rt.task)
     /\ rt.task.idempotent = "unset"
     /\ rt.calls # <<>>
     /\ rt.calls[1] = "transient") => (rt.pc = "raised" /\ Len(rt.calls) = 1)

\* the task the runner r is at
CurrentTask(r) == plan[r].tasks[idx[r]]

\* C29: a handler is invoked only for a task whose depends_on entries all
\* have a succeeded Task Instance in the run, and a runner that finds an
\* unsatisfied dependency fails the run with error_code DEP_UNSATISFIED.
C29_DependencyUnsatisfied ==
    [][\A r \in Runners :
          /\ (pc[r] = "invoke" /\ pc'[r] = "in_handler") =>
                 \A dep \in CurrentTask(r).depends_on : HasSucceeded(mem[r].run_id, dep)
          /\ (pc[r] = "except_dependency" /\ pc'[r] # pc[r]) =>
                 /\ runs'[mem[r].run_id].status = "failed"
                 /\ runs'[mem[r].run_id].error_code = "DEP_UNSATISFIED"]_vars

\* the run's started_at is more than run_timeout_ms ago
TimedOut(id) ==
    /\ runs[id].started_at # Null
    /\ now - runs[id].started_at > config.run_timeout_ms

\* C30: a runner that checks a run whose timeout has passed, at the start of
\* an execution or before a task, fails it with RUN_TIMEOUT and ends the
\* execution; no handler of a run failed with RUN_TIMEOUT is invoked; and a
\* run's started_at, once set, never changes.
C30_RunTimeout ==
    /\ [][\A r \in Runners :
             (/\ pc[r] \in {"check_plan", "loop_row"}
              /\ pc'[r] # pc[r]
              /\ TimedOut(mem[r].run_id)) =>
                  /\ runs'[mem[r].run_id].status = "failed"
                  /\ runs'[mem[r].run_id].error_code = "RUN_TIMEOUT"
                  /\ pc'[r] = "idle"]_vars
    /\ [][\A x \in RunIds \X TaskIds :
             (/\ x[1] \in DOMAIN runs
              /\ runs[x[1]].status = "failed"
              /\ runs[x[1]].error_code = "RUN_TIMEOUT") => invoked'[x] = invoked[x]]_vars
    /\ [][\A id \in DOMAIN runs :
             runs[id].started_at # Null => runs'[id].started_at = runs[id].started_at]_vars

\* C31: a runner that executes a claimed run whose plan file is missing fails
\* the run with error_code PLAN_NOT_FOUND and releases its claim.
C31_PlanNotFound ==
    [][\A r \in Runners :
          (pc[r] = "check_plan" /\ pc'[r] # pc[r] /\ planFile = NoFile) =>
              /\ runs'[mem[r].run_id].status = "failed"
              /\ runs'[mem[r].run_id].error_code = "PLAN_NOT_FOUND"
              /\ runs'[mem[r].run_id].claimed_by = None]_vars

\* C32: every stored run has claim_expires_at set if and only if claimed_by
\* is set.
C32_LeaseIffOwner ==
    \A id \in DOMAIN runs :
        (runs[id].claim_expires_at # Null) <=> (runs[id].claimed_by # None)

\* C32 witness: a run that was claimed, suspended on its approval, approved,
\* claimed again and finished has its claim released.
C32_Witness ==
    \E id \in DOMAIN runs :
        /\ runs[id].status = "succeeded"
        /\ runs[id].claimed_by = None
        /\ \E a \in run_approvals : a.run_id = id /\ a.status = "approved"

\* the runner r ends its work on the run it claimed: it suspends, finishes or
\* fails the run, or releases a blocked run that has a pending approval
EndsWork(r) ==
    /\ pc[r] \in {"claimed", "check_plan", "loop_row", "block", "denied", "finish"}
                    \cup DOMAIN ExcMessage
    /\ pc'[r] = "idle"

\* C33: when a runner suspends, finishes or fails the run it claimed, or
\* releases a blocked run with a pending approval, the stored run has
\* claimed_by and claim_expires_at null once the step is committed.
C33_ClaimReleased ==
    [][\A r \in Runners :
          EndsWork(r) =>
              /\ runs'[mem[r].run_id].claimed_by = None
              /\ runs'[mem[r].run_id].claim_expires_at = Null]_vars

\* the output artifacts of the run for the task: rows of the run carrying
\* the task's id, the kind of the task's output and the JSON content type
OutputArtifacts(run_id, task) ==
    {a \in artifacts : /\ a.run_id = run_id
                       /\ a.task_id = task.id
                       /\ a.kind = OutputKind(task)
                       /\ a.content_type = "application/json"}

\* a runner executing the run has moved past the task (its loop is at a
\* later task or behind the last one) and no runner stands between the
\* commit of the task's succeeded Task Instance and the persisting of its output
MovedPast(run_id, task_id) ==
    /\ \E r \in Runners : /\ mem[r].run_id = run_id
                          /\ plan[r] # NoPlan
                          /\ idx[r] > TaskIndex(plan[r], task_id)
    /\ ~\E r \in Runners : /\ pc[r] = "persist"
                           /\ mem[r].run_id = run_id
                           /\ plan[r].tasks[idx[r]].id = task_id

\* C34: every succeeded Task Instance of a run has exactly one output
\* artifact of that run, of the kind of the task's output, once the runner
\* has moved past the task.
C34_OneArtifactPerSucceededTask ==
    \A t \in run_tasks :
        (t.status = "succeeded" /\ MovedPast(t.run_id, t.task_id)) =>
            \E i \in DOMAIN load_plan(planFile).tasks :
                /\ load_plan(planFile).tasks[i].id = t.task_id
                /\ Cardinality(OutputArtifacts(t.run_id, load_plan(planFile).tasks[i])) = 1

\* C35: under a fairly ticking runner every queued run is eventually claimed
\* and executed (it leaves status queued), whether or not an older run stays
\* blocked on a pending approval.
C35_QueuedRunExecuted ==
    \A id \in RunIds :
        (id \in DOMAIN runs /\ runs[id].status = "queued")
            ~> (id \in DOMAIN runs /\ runs[id].status # "queued")

\* the state map of an execution that ran every task before position i itself
UninterruptedState(p, i) ==
    UNION {SaveOutput({}, p.tasks[j]) : j \in 1..(i - 1)}

\* C36: the state map handed to a task's handler holds the output of every
\* earlier task under the task's id and under its save_as alias, as in an
\* execution without interruption.
C36_StateMapOnResume ==
    [][\A r \in Runners :
          (pc[r] = "invoke" /\ pc'[r] = "in_handler") =>
              state[r] = UninterruptedState(plan[r], idx[r])]_vars

\* C37: the handler of a task declared non-idempotent is invoked at most
\* once in the life of a run.
C37_NonIdempotentOnce ==
    \A id \in RunIds, i \in DOMAIN load_plan(planFile).tasks :
        ~load_plan(planFile).tasks[i].idempotent =>
            invoked[<<id, load_plan(planFile).tasks[i].id>>] <= 1

\* C38: a run in status succeeded or failed has no Task Instance in status
\* running.
C38_NoRunningTaskInFinishedRun ==
    \A id \in DOMAIN runs :
        runs[id].status \in {"succeeded", "failed"} =>
            ~\E t \in run_tasks : t.run_id = id /\ t.status = "running"

\* C39: a schedule whose enabled flag is false keeps it false in every step.
C39_DisabledStaysDisabled ==
    [][\A x \in schedules :
          ~x.enabled => \A y \in schedules' : y.schedule_id = x.schedule_id => ~y.enabled]_vars

\* C39 witness: a disabled schedule has just been triggered.
C39_Witness ==
    \E x \in schedules :
        /\ ~x.enabled
        /\ call.op = "trigger_schedule"
        /\ call.schedule_id = x.schedule_id

\* the succeeded wait.delay Task Instances whose output is the deferred
\* marker, among the tasks before position i of the run's plan p
DeferredMarkers(run_id, p, i) ==
    {t \in run_tasks : /\ t.run_id = run_id /\ t.status = "succeeded" /\ t.resume_at # Null
                       /\ \E j \in 1..(i - 1) : p.tasks[j].id = t.task_id}

\* C40: once a wait.delay task of more than 300 s has returned its deferred
\* marker, no later task of the run is invoked before the marker's resume_at;
\* a wait.delay of at most 300 s returns only after its delay has passed
C40_DelayBeforeNextTask ==
    /\ [][\A r \in Runners :
            (pc[r] = "invoke" /\ pc'[r] = "in_handler") =>
                \A t \in DeferredMarkers(mem[r].run_id, plan[r], idx[r]) : now >= t.resume_at]_vars
    /\ [][\A r \in Runners :
            (pc[r] = "in_handler" /\ pc'[r] = "task_done"
             /\ SleepsInline(plan[r].tasks[idx[r]])) => now >= wait[r]]_vars
====
